---- MODULE Spec2Model ----
(***************************************************************************)
(* A model of bok_choy/browser.py: how browser() turns the process         *)
(* environment, the caller's tags and an optional proxy into the class and *)
(* the arguments of a Selenium session.                                    *)
(*                                                                         *)
(* Python values are modelled as follows.  A dict is a function whose      *)
(* DOMAIN is its key set; a list is a sequence; None is the string None    *)
(* where it is compared with strings (os.environ.get), and the record      *)
(* NoneArg where an argument may be None or an object (tags, proxy).  A    *)
(* formatted string is the tuple of its pieces, so that equal strings are  *)
(* equal tuples.  A function that may raise returns either Return(v) or an *)
(* exception record.                                                       *)
(***************************************************************************)
EXTENDS Naturals, Sequences, FiniteSets, TLC

VARIABLES
    environ,        \* os.environ: a dict from variable name to string
    defaultKwargs,  \* the dict object bound to _proxy_kwargs' default argument
    pc,             \* "idle": no call of browser() in progress; "done": one has ended
    callArgs,       \* the (tags, proxy) of the last browser() call
    mode,           \* the branch browser() took: Local, Remote or ManagedCloud
    outcome,        \* what the last browser() call returned or raised
    constructed,    \* the session-constructor invocations of the last browser() call
    proxyCall,      \* the last direct call of _proxy_kwargs
    nProxyCalls     \* how many direct calls of _proxy_kwargs were made

vars == <<environ, defaultKwargs, pc, callArgs, mode, outcome, constructed,
          proxyCall, nProxyCalls>>

-----------------------------------------------------------------------------
(* Bounds of the model *)

\* The longest tag list a caller passes.
MaxTags == 2

\* The number of direct calls of _proxy_kwargs in one run.
MaxProxyCalls == 3

-----------------------------------------------------------------------------
(* Python values *)

None == "None"

NoneArg == [isNone |-> TRUE]

ListArg(l) == [isNone |-> FALSE, list |-> l]

ProxyObj(h) == [isNone |-> FALSE, host |-> h]

EmptyDict == [k \in {} |-> None]

Range(s) == {s[i] : i \in 1..Len(s)}

\* dict.update: the keys of e are added to d, replacing those already there.
update(d, e) ==
    [k \in (DOMAIN d) \cup (DOMAIN e) |-> IF k \in DOMAIN e THEN e[k] ELSE d[k]]

\* dict.get(key, default)
get(d, key, default) == IF key \in DOMAIN d THEN d[key] ELSE default

\* ", ".join(...) inside a format string: the message keeps its pieces.
Msg(fmt, pieces) == [fmt |-> fmt, pieces |-> pieces]

Return(v) == [exc |-> "none", val |-> v]

BrowserConfigError(msg) == [exc |-> "BrowserConfigError", msg |-> msg]

\* What d[key] raises when key is not in d.
KeyError(key) == [exc |-> "KeyError", msg |-> Msg("{0}", <<key>>)]

-----------------------------------------------------------------------------
(* Module constants *)

REMOTE_ENV_VARS == <<"SELENIUM_BROWSER", "SELENIUM_HOST", "SELENIUM_PORT">>

SAUCE_ENV_VARS ==
    REMOTE_ENV_VARS \o
    <<"SELENIUM_VERSION", "SELENIUM_PLATFORM", "SAUCE_USER_NAME", "SAUCE_API_KEY">>

OPTIONAL_ENV_VARS == <<"JOB_NAME", "BUILD_NUMBER">>

BROWSERS ==
    ("firefox" :> "webdriver.Firefox" @@
     "chrome" :> "webdriver.Chrome" @@
     "internet explorer" :> "webdriver.Ie" @@
     "safari" :> "webdriver.Safari")

\* BROWSERS.keys(), in the order the dict literal gives them.
BrowserKeys == <<"firefox", "chrome", "internet explorer", "safari">>

\* proxy_type without an entry for one of the BROWSERS.
proxy_type_no_safari ==
    ("firefox" :> "MANUAL" @@
     "internet explorer" :> "MANUAL" @@
     "chrome" :> "AUTODETECT")

proxy_type ==
    ("firefox" :> "MANUAL" @@
     "internet explorer" :> "MANUAL" @@
     "chrome" :> "AUTODETECT" @@
     "safari" :> "AUTODETECT")

-----------------------------------------------------------------------------
(* The functions of browser.py *)

\* _use_remote_browser with any() in the place of all().
_use_remote_browser_any(env, required_vars) ==
    \E i \in 1..Len(required_vars) : required_vars[i] \in DOMAIN env

_use_remote_browser(env, required_vars) ==
    \A i \in 1..Len(required_vars) : required_vars[i] \in DOMAIN env

\* _required_envs without the check that the browser is supported.
_required_envs_no_browser_check(env, env_vars) ==
    LET envs == [key \in Range(env_vars) |-> get(env, key, None)]
        missing == SelectSeq(env_vars, LAMBDA key : envs[key] = None)
    IN  IF Len(missing) > 0
        THEN BrowserConfigError(
                 Msg("These environment variables must be set: {missing}", missing))
        ELSE Return(envs)

\* _required_envs with "not val" in the place of "val is None".
_required_envs_reject_empty(env, env_vars) ==
    LET envs == [key \in Range(env_vars) |-> get(env, key, None)]
        missing == SelectSeq(env_vars,
                             LAMBDA key : envs[key] = None \/ envs[key] = "")
    IN  IF Len(missing) > 0
        THEN BrowserConfigError(
                 Msg("These environment variables must be set: {missing}", missing))
        ELSE IF envs["SELENIUM_BROWSER"] \notin DOMAIN BROWSERS
        THEN BrowserConfigError(
                 Msg("Unsuppported browser: {0}", <<envs["SELENIUM_BROWSER"]>>))
        ELSE Return(envs)

_required_envs(env, env_vars) ==
    LET envs == [key \in Range(env_vars) |-> get(env, key, None)]
        missing == SelectSeq(env_vars, LAMBDA key : envs[key] = None)
    IN  IF Len(missing) > 0
        THEN BrowserConfigError(
                 Msg("These environment variables must be set: {missing}", missing))
        ELSE IF "SELENIUM_BROWSER" \notin DOMAIN envs
        THEN KeyError("SELENIUM_BROWSER")
        ELSE IF envs["SELENIUM_BROWSER"] \notin DOMAIN BROWSERS
        THEN BrowserConfigError(
                 Msg("Unsuppported browser: {0}", <<envs["SELENIUM_BROWSER"]>>))
        ELSE Return(envs)

\* _optional_envs without its second check.
_optional_envs_one_sided(env) ==
    LET envs == [key \in {k \in Range(OPTIONAL_ENV_VARS) : k \in DOMAIN env}
                    |-> env[key]]
    IN  IF "JOB_NAME" \in DOMAIN envs /\ "BUILD_NUMBER" \notin DOMAIN envs
        THEN BrowserConfigError(Msg("Missing BUILD_NUMBER environment var", <<>>))
        ELSE Return(envs)

_optional_envs(env) ==
    LET envs == [key \in {k \in Range(OPTIONAL_ENV_VARS) : k \in DOMAIN env}
                    |-> env[key]]
    IN  IF "JOB_NAME" \in DOMAIN envs /\ "BUILD_NUMBER" \notin DOMAIN envs
        THEN BrowserConfigError(Msg("Missing BUILD_NUMBER environment var", <<>>))
        ELSE IF "BUILD_NUMBER" \in DOMAIN envs /\ "JOB_NAME" \notin DOMAIN envs
        THEN BrowserConfigError(Msg("Missing JOB_NAME environment var", <<>>))
        ELSE Return(envs)

\* The first of `keys` that envs lacks, as the lookup envs[key] would raise.
FirstMissing(envs, keys) ==
    LET lacking == SelectSeq(keys, LAMBDA k : k \notin DOMAIN envs)
    IN  IF Len(lacking) = 0 THEN None ELSE lacking[1]

\* _capabilities_dict adding the SauceLabs block whenever the remote
\* variables are set, reading it with envs.get.
_capabilities_dict_sauce_leak(env, envs, tags) ==
    LET useSauce == _use_remote_browser(env, REMOTE_ENV_VARS)
        useJenkins == "JOB_NAME" \in DOMAIN envs
        capabilities ==
            ("browserName" :> envs["SELENIUM_BROWSER"] @@
             "video-upload-on-pass" :> FALSE @@
             "sauce-advisor" :> FALSE @@
             "capture-html" :> TRUE @@
             "record-screenshots" :> TRUE @@
             "max-duration" :> 600 @@
             "public" :> "public restricted" @@
             "tags" :> tags)
        sauce_capabilities ==
            ("platform" :> get(envs, "SELENIUM_PLATFORM", None) @@
             "version" :> get(envs, "SELENIUM_VERSION", None) @@
             "username" :> get(envs, "SAUCE_USER_NAME", None) @@
             "accessKey" :> get(envs, "SAUCE_API_KEY", None))
        jenkins_vars ==
            ("build" :> envs["BUILD_NUMBER"] @@
             "name" :> envs["JOB_NAME"])
        withSauce ==
            IF useSauce THEN update(capabilities, sauce_capabilities) ELSE capabilities
    IN  Return(IF useJenkins THEN update(withSauce, jenkins_vars) ELSE withSauce)

_capabilities_dict(env, envs, tags) ==
    LET useSauce == _use_remote_browser(env, SAUCE_ENV_VARS)
        useJenkins == "JOB_NAME" \in DOMAIN envs
        lookups ==
            <<"SELENIUM_BROWSER">> \o
            (IF useSauce
             THEN <<"SELENIUM_PLATFORM", "SELENIUM_VERSION",
                    "SAUCE_USER_NAME", "SAUCE_API_KEY">>
             ELSE <<>>) \o
            (IF useJenkins THEN <<"BUILD_NUMBER", "JOB_NAME">> ELSE <<>>)
        bad == FirstMissing(envs, lookups)
        capabilities ==
            ("browserName" :> envs["SELENIUM_BROWSER"] @@
             "video-upload-on-pass" :> FALSE @@
             "sauce-advisor" :> FALSE @@
             "capture-html" :> TRUE @@
             "record-screenshots" :> TRUE @@
             "max-duration" :> 600 @@
             "public" :> "public restricted" @@
             "tags" :> tags)
        sauce_capabilities ==
            ("platform" :> envs["SELENIUM_PLATFORM"] @@
             "version" :> envs["SELENIUM_VERSION"] @@
             "username" :> envs["SAUCE_USER_NAME"] @@
             "accessKey" :> envs["SAUCE_API_KEY"])
        jenkins_vars ==
            ("build" :> envs["BUILD_NUMBER"] @@
             "name" :> envs["JOB_NAME"])
        withSauce ==
            IF useSauce THEN update(capabilities, sauce_capabilities) ELSE capabilities
    IN  IF bad # None
        THEN KeyError(bad)
        ELSE Return(IF useJenkins THEN update(withSauce, jenkins_vars) ELSE withSauce)

_local_browser_class(browser_name) ==
    IF browser_name \notin DOMAIN BROWSERS
    THEN BrowserConfigError(
             Msg("Invalid browser name {name}.  Options are: {options}",
                 <<browser_name>> \o BrowserKeys))
    ELSE Return([class |-> BROWSERS[browser_name], args |-> <<>>,
                 kwargs |-> EmptyDict])

_remote_browser_class(env, env_vars, tagsArg) ==
    LET tags == IF tagsArg.isNone THEN <<>> ELSE tagsArg.list
        required == _required_envs(env, env_vars)
        optional == _optional_envs(env)
        envs == update(required.val, optional.val)
        caps == _capabilities_dict(env, envs, tags)
        url == <<"http://", envs["SELENIUM_HOST"], ":", envs["SELENIUM_PORT"],
                 "/wd/hub">>
    IN  IF required.exc # "none" THEN required
        ELSE IF optional.exc # "none" THEN optional
        ELSE IF caps.exc # "none" THEN caps
        ELSE IF "SELENIUM_HOST" \notin DOMAIN envs THEN KeyError("SELENIUM_HOST")
        ELSE IF "SELENIUM_PORT" \notin DOMAIN envs THEN KeyError("SELENIUM_PORT")
        ELSE Return([class |-> "webdriver.Remote", args |-> <<>>,
                     kwargs |-> ("command_executor" :> url @@
                                 "desired_capabilities" :> caps.val)])

\* _proxy_kwargs without the branch for firefox.
_proxy_kwargs_always_desired(browser_name, proxy, browser_kwargs) ==
    LET proxy_dict ==
            "proxy" :> ("httpProxy" :> proxy.host @@
                        "ftpProxy" :> proxy.host @@
                        "sslProxy" :> proxy.host @@
                        "noProxy" :> None @@
                        "proxyType" :> proxy_type[browser_name] @@
                        "class" :> "org.openqa.selenium.Proxy")
        withDesired ==
            IF "desired_capabilities" \notin DOMAIN browser_kwargs
            THEN update(browser_kwargs, "desired_capabilities" :> EmptyDict)
            ELSE browser_kwargs
    IN  IF browser_name \notin DOMAIN proxy_type
        THEN KeyError(browser_name)
        ELSE Return(update(withDesired,
                           "desired_capabilities" :>
                               update(withDesired["desired_capabilities"],
                                      proxy_dict)))

\* The dict _proxy_kwargs returns, which is browser_kwargs itself, updated in
\* place; the lookup proxy_type[browser_name] comes before any update.
_proxy_kwargs(browser_name, proxy, browser_kwargs) ==
    LET proxy_dict ==
            "proxy" :> ("httpProxy" :> proxy.host @@
                        "ftpProxy" :> proxy.host @@
                        "sslProxy" :> proxy.host @@
                        "noProxy" :> None @@
                        "proxyType" :> proxy_type[browser_name] @@
                        "class" :> "org.openqa.selenium.Proxy")
    IN  IF browser_name \notin DOMAIN proxy_type
        THEN KeyError(browser_name)
        ELSE IF browser_name = "firefox"
                /\ "desired_capabilities" \notin DOMAIN browser_kwargs
        THEN Return(update(browser_kwargs,
                           "capabilities" :> update(EmptyDict, proxy_dict)))
        ELSE LET withDesired ==
                     IF "desired_capabilities" \notin DOMAIN browser_kwargs
                     THEN update(browser_kwargs, "desired_capabilities" :> EmptyDict)
                     ELSE browser_kwargs
             IN  Return(update(withDesired,
                               "desired_capabilities" :>
                                   update(withDesired["desired_capabilities"],
                                          proxy_dict)))

\* The branches of browser() with the two remote tests in the other order.
browser_mode_remote_first(env) ==
    IF _use_remote_browser(env, REMOTE_ENV_VARS) THEN "Remote"
    ELSE IF _use_remote_browser(env, SAUCE_ENV_VARS) THEN "ManagedCloud"
    ELSE "Local"

\* The branch the if/elif/else of browser() takes, named as the three cases
\* of its docstring: SauceLabs (ManagedCloud), remote browser, local browser.
browser_mode(env) ==
    IF _use_remote_browser(env, SAUCE_ENV_VARS) THEN "ManagedCloud"
    ELSE IF _use_remote_browser(env, REMOTE_ENV_VARS) THEN "Remote"
    ELSE "Local"

\* browser(tags, proxy): the branch taken, and what the call returns (the
\* class and arguments the session constructor is invoked with) or raises.
browser(env, tagsArg, proxy) ==
    LET browser_name == get(env, "SELENIUM_BROWSER", "firefox")
        branch == browser_mode(env)
        chosen ==
            IF branch = "ManagedCloud"
            THEN _remote_browser_class(env, SAUCE_ENV_VARS, tagsArg)
            ELSE IF branch = "Remote"
            THEN _remote_browser_class(env, REMOTE_ENV_VARS, tagsArg)
            ELSE _local_browser_class(browser_name)
        augmented ==
            IF proxy.isNone
            THEN Return(chosen.val.kwargs)
            ELSE _proxy_kwargs(browser_name, proxy, chosen.val.kwargs)
    IN  [mode |-> branch,
         out |-> IF chosen.exc # "none" THEN chosen
                 ELSE IF augmented.exc # "none" THEN augmented
                 ELSE Return([class |-> chosen.val.class,
                              args |-> chosen.val.args,
                              kwargs |-> augmented.val])]

-----------------------------------------------------------------------------
(* Inputs *)

AllEnvVars == Range(SAUCE_ENV_VARS) \cup Range(OPTIONAL_ENV_VARS)

Unset == "<unset>"

\* The values a variable takes when it is set: for SELENIUM_BROWSER the
\* supported identifiers, an unsupported one and the empty string; for the
\* other required variables a value and the empty string; for the optional
\* pair a value.
BrowserValues == Range(BrowserKeys) \cup {"opera", ""}

\* One choice per variable, Unset for a variable the environment lacks.
EnvChoices ==
    [SELENIUM_BROWSER  : BrowserValues \cup {Unset},
     SELENIUM_HOST     : {"localhost", "", Unset},
     SELENIUM_PORT     : {"4444", "", Unset},
     SELENIUM_VERSION  : {"10", "", Unset},
     SELENIUM_PLATFORM : {"Linux", "", Unset},
     SAUCE_USER_NAME   : {"user", "", Unset},
     SAUCE_API_KEY     : {"key", "", Unset},
     JOB_NAME          : {"job", Unset},
     BUILD_NUMBER      : {"7", Unset}]

EnvOf(c) == [k \in {v \in AllEnvVars : c[v] # Unset} |-> c[k]]

TagNames == {"smoke", "ci"}

TagArgs ==
    {NoneArg} \cup
    {ListArg(l) : l \in UNION {[1..n -> TagNames] : n \in 0..MaxTags}}

ProxyHosts == {"proxy.a", "proxy.b"}

ProxyArgs == {NoneArg} \cup {ProxyObj(h) : h \in ProxyHosts}

NoCall == [none |-> TRUE]

-----------------------------------------------------------------------------
(* Calls of browser() *)

Init ==
    /\ environ \in {EnvOf(c) : c \in EnvChoices}
    /\ defaultKwargs = EmptyDict
    /\ pc = "idle"
    /\ callArgs = NoCall
    /\ mode = "none"
    /\ outcome = NoCall
    /\ constructed = <<>>
    /\ proxyCall = NoCall
    /\ nProxyCalls = 0

Browser(tagsArg, proxy) ==
    /\ pc = "idle"
    /\ LET r == browser(environ, tagsArg, proxy)
       IN  /\ mode' = r.mode
           /\ outcome' = r.out
           /\ constructed' = IF r.out.exc = "none" THEN <<r.out.val>> ELSE <<>>
    /\ callArgs' = [tags |-> tagsArg, proxy |-> proxy]
    /\ pc' = "done"
    /\ UNCHANGED <<environ, defaultKwargs, proxyCall, nProxyCalls>>

\* The call is over; nothing of it is kept.
Finish ==
    /\ pc = "done"
    /\ pc' = "idle"
    /\ callArgs' = NoCall
    /\ mode' = "none"
    /\ outcome' = NoCall
    /\ constructed' = <<>>
    /\ UNCHANGED <<environ, defaultKwargs, proxyCall, nProxyCalls>>

Next ==
    \/ \E t \in TagArgs, p \in ProxyArgs : Browser(t, p)
    \/ Finish

Spec == Init /\ [][Next]_vars

-----------------------------------------------------------------------------
(* Direct calls of _proxy_kwargs *)

\* The value the def statement binds to the default of browser_kwargs.
InitialDefault == EmptyDict

\* The name a direct caller passes: a key of proxy_type, or another string.
ProxyBrowserNames == Range(BrowserKeys) \cup {"opera"}

\* The browser_kwargs a direct caller passes: what _local_browser_class
\* returns, what _remote_browser_class returns, and a 'capabilities' argument.
KwargsArgs ==
    {EmptyDict,
     ("command_executor" :> <<"http://", "localhost", ":", "4444", "/wd/hub">> @@
      "desired_capabilities" :> ("browserName" :> "firefox" @@ "tags" :> <<>>)),
     "capabilities" :> ("browserName" :> "firefox")}

ProxyInit ==
    /\ environ = EmptyDict
    /\ defaultKwargs = InitialDefault
    /\ pc = "idle"
    /\ callArgs = NoCall
    /\ mode = "none"
    /\ outcome = NoCall
    /\ constructed = <<>>
    /\ proxyCall = NoCall
    /\ nProxyCalls = 0

\* _proxy_kwargs(browser_name, proxy): browser_kwargs is the default object,
\* which the call updates in place.
ProxyKwargsOmitted(browser_name, proxy) ==
    /\ nProxyCalls < MaxProxyCalls
    /\ LET r == _proxy_kwargs(browser_name, proxy, defaultKwargs)
       IN  /\ proxyCall' = [browser_name |-> browser_name, proxy |-> proxy,
                            omitted |-> TRUE, before |-> defaultKwargs, out |-> r]
           /\ defaultKwargs' = IF r.exc = "none" THEN r.val ELSE defaultKwargs
    /\ nProxyCalls' = nProxyCalls + 1
    /\ UNCHANGED <<environ, pc, callArgs, mode, outcome, constructed>>

\* _proxy_kwargs(browser_name, proxy, browser_kwargs) with the caller's own dict.
ProxyKwargsPassed(browser_name, proxy, browser_kwargs) ==
    /\ nProxyCalls < MaxProxyCalls
    /\ proxyCall' = [browser_name |-> browser_name, proxy |-> proxy,
                     omitted |-> FALSE, before |-> browser_kwargs,
                     out |-> _proxy_kwargs(browser_name, proxy, browser_kwargs)]
    /\ nProxyCalls' = nProxyCalls + 1
    /\ UNCHANGED <<environ, defaultKwargs, pc, callArgs, mode, outcome, constructed>>

ProxyNext ==
    \/ \E n \in ProxyBrowserNames, h \in ProxyHosts :
           ProxyKwargsOmitted(n, ProxyObj(h))
    \/ \E n \in ProxyBrowserNames, h \in ProxyHosts, k \in KwargsArgs :
           ProxyKwargsPassed(n, ProxyObj(h), k)

ProxySpec == ProxyInit /\ [][ProxyNext]_vars

-----------------------------------------------------------------------------
(* The environment and the last call, as the properties below read them *)

RemoteRequired == {"SELENIUM_BROWSER", "SELENIUM_HOST", "SELENIUM_PORT"}

SauceRequired ==
    RemoteRequired \cup
    {"SELENIUM_VERSION", "SELENIUM_PLATFORM", "SAUCE_USER_NAME", "SAUCE_API_KEY"}

SauceKeys == {"platform", "version", "username", "accessKey"}

SupportedIdentifiers == {"firefox", "chrome", "internet explorer", "safari"}

Present(k) == k \in DOMAIN environ

AllPresent(S) == \A k \in S : Present(k)

\* The variables the mode of the environment requires.
RequiredOfMode == IF AllPresent(SauceRequired) THEN SauceRequired ELSE RemoteRequired

RequestedBrowser ==
    IF Present("SELENIUM_BROWSER") THEN environ["SELENIUM_BROWSER"] ELSE "firefox"

ExactlyOneJobVar == Present("JOB_NAME") # Present("BUILD_NUMBER")

Called == pc = "done"

Returned == pc = "done" /\ outcome.exc = "none"

RaisedConfigError == pc = "done" /\ outcome.exc = "BrowserConfigError"

PassedTags == IF callArgs.tags.isNone THEN <<>> ELSE callArgs.tags.list

\* The message names every supported identifier.
Enumerates(msg) ==
    \A b \in SupportedIdentifiers : \E i \in 1..Len(msg.pieces) : msg.pieces[i] = b

\* d holds, under "proxy", a proxy block for the host h.
HasProxyBlock(d, h) ==
    /\ "proxy" \in DOMAIN d
    /\ d["proxy"]["httpProxy"] = h
    /\ d["proxy"]["ftpProxy"] = h
    /\ d["proxy"]["sslProxy"] = h

\* kwargs holds a proxy block for h under the argument named key.
ProxyUnder(kwargs, key, h) == key \in DOMAIN kwargs /\ HasProxyBlock(kwargs[key], h)

-----------------------------------------------------------------------------
(* Properties of browser() *)

\* C1: browser() takes the branch of the most specific mode whose variables
\* are all present: ManagedCloud (webdriver.Remote with the SauceLabs
\* capabilities) when all seven SAUCE_ENV_VARS are, Remote when the three
\* REMOTE_ENV_VARS are but not all seven, Local otherwise.
C1_MostSpecificMode ==
    Called =>
        /\ AllPresent(SauceRequired) =>
               /\ mode = "ManagedCloud"
               /\ Returned =>
                      /\ outcome.val.class = "webdriver.Remote"
                      /\ SauceKeys \subseteq
                             DOMAIN outcome.val.kwargs["desired_capabilities"]
        /\ (AllPresent(RemoteRequired) /\ ~AllPresent(SauceRequired)) =>
               /\ mode = "Remote"
               /\ Returned =>
                      /\ outcome.val.class = "webdriver.Remote"
                      /\ SauceKeys \cap
                             DOMAIN outcome.val.kwargs["desired_capabilities"] = {}
        /\ ~AllPresent(RemoteRequired) =>
               /\ mode = "Local"
               /\ Returned =>
                      /\ outcome.val.class # "webdriver.Remote"
                      /\ "command_executor" \notin DOMAIN outcome.val.kwargs

C1_Witness ==
    /\ Returned
    /\ AllPresent(SauceRequired)
    /\ mode = "ManagedCloud"
    /\ outcome.val.class = "webdriver.Remote"

\* C2 as stated: whenever exactly one of JOB_NAME and BUILD_NUMBER is set,
\* browser() raises the configuration error, whatever the mode.
C2_PairCheckedInEveryMode ==
    (Called /\ ExactlyOneJobVar) => outcome.exc = "BrowserConfigError"

\* C2 as amended: with exactly one of JOB_NAME and BUILD_NUMBER set, browser()
\* raises the configuration error in Remote and ManagedCloud mode; in Local
\* mode the pair is not read, and the call raises only for an unsupported
\* browser identifier.
C2_PairCheckedInRemoteModes ==
    (Called /\ ExactlyOneJobVar) =>
        /\ AllPresent(RemoteRequired) => outcome.exc = "BrowserConfigError"
        /\ ~AllPresent(RemoteRequired) =>
               IF RequestedBrowser \in SupportedIdentifiers
               THEN outcome.exc = "none"
               ELSE outcome.exc = "BrowserConfigError"

C2_Witness ==
    /\ RaisedConfigError
    /\ AllPresent(RemoteRequired)
    /\ RequestedBrowser \in SupportedIdentifiers
    /\ Present("BUILD_NUMBER")
    /\ ~Present("JOB_NAME")

\* C3: the caller's tags reach the capabilities only in ManagedCloud mode: in
\* Remote mode 'tags' is the empty list whatever the caller passed, in
\* ManagedCloud mode it is the caller's list, in order.
C3_TagsOnlyInManagedCloud ==
    Returned =>
        /\ mode = "Remote" =>
               outcome.val.kwargs["desired_capabilities"]["tags"] = <<>>
        /\ mode = "ManagedCloud" =>
               outcome.val.kwargs["desired_capabilities"]["tags"] = PassedTags

\* C4: an environment that lacks one of SELENIUM_BROWSER, SELENIUM_HOST and
\* SELENIUM_PORT falls back to Local mode and browser() does not raise, as long
\* as the requested (or default) identifier is supported; with or without a
\* proxy, whatever the other variables hold.
C4_LocalFallbackNeverRaises ==
    (Called /\ ~AllPresent(RemoteRequired)
            /\ RequestedBrowser \in SupportedIdentifiers) =>
        /\ mode = "Local"
        /\ outcome.exc = "none"
        /\ outcome.val.class # "webdriver.Remote"
        /\ "command_executor" \notin DOMAIN outcome.val.kwargs

C4_Witness ==
    /\ Returned
    /\ mode = "Local"
    /\ Present("SELENIUM_HOST")
    /\ Present("SELENIUM_BROWSER")
    /\ ~Present("SELENIUM_PORT")
    /\ ~callArgs.proxy.isNone

\* C5 as stated: an unsupported identifier raises the configuration error in
\* every mode, and in every mode the error enumerates the supported ones.
C5_UnsupportedEnumeratedInEveryMode ==
    (Called /\ RequestedBrowser \notin SupportedIdentifiers) =>
        /\ outcome.exc = "BrowserConfigError"
        /\ Enumerates(outcome.msg)

\* C5 as amended: an unsupported identifier raises the configuration error in
\* every mode; the error names the identifier, and it enumerates the supported
\* identifiers in Local mode only.
C5_UnsupportedEnumeratedInLocalOnly ==
    (Called /\ RequestedBrowser \notin SupportedIdentifiers) =>
        /\ outcome.exc = "BrowserConfigError"
        /\ \E i \in 1..Len(outcome.msg.pieces) :
               outcome.msg.pieces[i] = RequestedBrowser
        /\ Enumerates(outcome.msg) <=> ~AllPresent(RemoteRequired)

C5_Witness ==
    /\ RaisedConfigError
    /\ AllPresent(SauceRequired)
    /\ RequestedBrowser = "opera"
    /\ ~Enumerates(outcome.msg)

\* C6 as stated: in Remote and ManagedCloud mode a required variable of the
\* mode that is set to the empty string makes browser() raise the
\* configuration error.
C6_EmptyRequiredRejected ==
    (Called /\ AllPresent(RemoteRequired)
            /\ \E k \in RequiredOfMode : environ[k] = "") =>
        outcome.exc = "BrowserConfigError"

\* C6 as amended: in Remote and ManagedCloud mode the validator rejects a
\* required variable only when it is absent; one set to the empty string is
\* accepted, and the capabilities and the endpoint are built from it, except
\* SELENIUM_BROWSER, whose empty value is an unsupported identifier.
C6_EmptyRequiredAccepted ==
    (Called /\ AllPresent(RemoteRequired)
            /\ \E k \in RequiredOfMode : environ[k] = "") =>
        /\ environ["SELENIUM_BROWSER"] = "" => outcome.exc = "BrowserConfigError"
        /\ (environ["SELENIUM_BROWSER"] \in SupportedIdentifiers
                /\ ~ExactlyOneJobVar) =>
               /\ outcome.exc = "none"
               /\ outcome.val.kwargs["command_executor"] =
                      <<"http://", environ["SELENIUM_HOST"], ":",
                        environ["SELENIUM_PORT"], "/wd/hub">>
               /\ AllPresent(SauceRequired) =>
                      LET caps == outcome.val.kwargs["desired_capabilities"]
                      IN  /\ caps["platform"] = environ["SELENIUM_PLATFORM"]
                          /\ caps["version"] = environ["SELENIUM_VERSION"]
                          /\ caps["username"] = environ["SAUCE_USER_NAME"]
                          /\ caps["accessKey"] = environ["SAUCE_API_KEY"]

C6_Witness ==
    /\ Returned
    /\ mode = "Remote"
    /\ environ["SELENIUM_HOST"] = ""
    /\ outcome.val.kwargs["command_executor"][2] = ""

\* C8: a call of browser() ends in one of two ways: the session constructor
\* is invoked once, with the class and the arguments that classification,
\* validation, capability building and proxy augmentation produced, or the
\* configuration error is raised and the constructor is not invoked; no other
\* error, such as a failed lookup in proxy_type, is raised.
C8_ConstructOnceOrConfigError ==
    Called =>
        \/ /\ outcome.exc = "none"
           /\ constructed = <<outcome.val>>
           /\ ~callArgs.proxy.isNone =>
                  \/ ProxyUnder(outcome.val.kwargs, "capabilities",
                                callArgs.proxy.host)
                  \/ ProxyUnder(outcome.val.kwargs, "desired_capabilities",
                                callArgs.proxy.host)
        \/ /\ outcome.exc = "BrowserConfigError"
           /\ constructed = <<>>

C8_Witness ==
    /\ Returned
    /\ mode = "Local"
    /\ RequestedBrowser = "safari"
    /\ ~callArgs.proxy.isNone
    /\ Len(constructed) = 1
    /\ ProxyUnder(constructed[1].kwargs, "desired_capabilities", callArgs.proxy.host)

\* C9: in the capabilities of a remote session 'platform', 'version',
\* 'username' and 'accessKey' are present exactly in ManagedCloud mode, 'build'
\* and 'name' exactly when JOB_NAME and BUILD_NUMBER are both set, and
\* 'browserName' is always present, with the value of SELENIUM_BROWSER.
C9_NoCapabilityLeak ==
    (Returned /\ outcome.val.class = "webdriver.Remote") =>
        LET caps == outcome.val.kwargs["desired_capabilities"]
        IN  /\ \A k \in SauceKeys :
                   k \in DOMAIN caps <=> AllPresent(SauceRequired)
            /\ \A k \in {"build", "name"} :
                   k \in DOMAIN caps <=> (Present("JOB_NAME") /\ Present("BUILD_NUMBER"))
            /\ "browserName" \in DOMAIN caps
            /\ caps["browserName"] = environ["SELENIUM_BROWSER"]

C9_Witness ==
    /\ Returned
    /\ mode = "Remote"
    /\ Present("SELENIUM_PLATFORM")
    /\ Present("SAUCE_USER_NAME")
    /\ Present("JOB_NAME")
    /\ "build" \in DOMAIN outcome.val.kwargs["desired_capabilities"]
    /\ "platform" \notin DOMAIN outcome.val.kwargs["desired_capabilities"]

-----------------------------------------------------------------------------
(* Properties of _proxy_kwargs *)

ProxyCalled == nProxyCalls > 0

ProxyReturned == nProxyCalls > 0 /\ proxyCall.out.exc = "none"

\* C7: the proxy block goes under 'capabilities' exactly when the identifier
\* is 'firefox' and browser_kwargs has no 'desired_capabilities'; in every
\* other case it goes under 'desired_capabilities', created if absent; the
\* call writes one of the two arguments and leaves the other as it was.
C7_ProxyPlacement ==
    ProxyReturned =>
        LET before == proxyCall.before
            after == proxyCall.out.val
            host == proxyCall.proxy.host
        IN  IF proxyCall.browser_name = "firefox"
               /\ "desired_capabilities" \notin DOMAIN before
            THEN /\ ProxyUnder(after, "capabilities", host)
                 /\ "desired_capabilities" \notin DOMAIN after
            ELSE /\ ProxyUnder(after, "desired_capabilities", host)
                 /\ "capabilities" \in DOMAIN after <=> "capabilities" \in DOMAIN before
                 /\ "capabilities" \in DOMAIN before =>
                        after["capabilities"] = before["capabilities"]

C7_Witness ==
    /\ ProxyReturned
    /\ ~proxyCall.omitted
    /\ proxyCall.browser_name = "firefox"
    /\ "desired_capabilities" \in DOMAIN proxyCall.before
    /\ ProxyUnder(proxyCall.out.val, "desired_capabilities", proxyCall.proxy.host)
    /\ "capabilities" \notin DOMAIN proxyCall.out.val

\* C10: nothing persists across calls of _proxy_kwargs: whatever calls came
\* before, a call returns what it would return as the first call, with the
\* same browser identifier, proxy host and browser_kwargs (passed or omitted).
C10_NothingPersists ==
    ProxyCalled =>
        proxyCall.out =
            _proxy_kwargs(proxyCall.browser_name, proxyCall.proxy,
                          IF proxyCall.omitted THEN InitialDefault
                          ELSE proxyCall.before)

====
